---------------------------- MODULE Spec2Model ----------------------------
(***************************************************************************)
(* Model of the Binance Futures testnet trading bot (src/bot.py):          *)
(* BasicBot.validate_order_params, BasicBot.get_current_price and          *)
(* BasicBot.place_order and the other methods of BasicBot, driven by the   *)
(* interactive menu, by command-line mode, or by a direct call of the      *)
(* validator.                                                              *)
(*                                                                         *)
(* Python values are records [tag, val]:                                   *)
(*   tag "none"  : None (an optional argument that was not supplied)       *)
(*   tag "nan"   : float('nan') (float() accepts the text "nan")           *)
(*   tag "num"   : a float, val its value                                  *)
(*   tag "error" : only for an answer of the exchange: the call raised     *)
(* Quantities are counted in thousandths (0.01 is 10); prices in units.    *)
(***************************************************************************)
EXTENDS Integers, Sequences, FiniteSets, TLC

VARIABLES pc, entry, choice, confirm, req, ticker, result, validations,
          sent, ret, api, log, out

vars == <<pc, entry, choice, confirm, req, ticker, result, validations,
          sent, ret, api, log, out>>

(* ------------------------------ bounds --------------------------------- *)

MaxPrice == 3
MaxQty == 1

(* --------------------------- Python values ----------------------------- *)

NoneV == [tag |-> "none", val |-> 0]
NaN == [tag |-> "nan", val |-> 0]
Num(n) == [tag |-> "num", val |-> n]
TickerError == [tag |-> "error", val |-> 0]

IsNum(v) == v.tag = "num"

\* float comparisons: any comparison with nan is False
PyLe(a, b) == IsNum(a) /\ IsNum(b) /\ a.val <= b.val
PyLt(a, b) == IsNum(a) /\ IsNum(b) /\ a.val < b.val
PyGe(a, b) == IsNum(a) /\ IsNum(b) /\ a.val >= b.val
PyGt(a, b) == IsNum(a) /\ IsNum(b) /\ a.val > b.val

\* truth value of an optional float: None and 0.0 are false, nan is true
Truthy(v) == v.tag = "nan" \/ (IsNum(v) /\ v.val # 0)

\* str.upper() on the strings the model uses
Upper(s) ==
    CASE s = "buy" -> "BUY"
      [] s = "sell" -> "SELL"
      [] s = "hold" -> "HOLD"
      [] s = "stop_limit" -> "STOP_LIMIT"
      [] OTHER -> s

\* str(x) of a float, as passed to the exchange
Str(v) == [tag |-> IF v.tag = "num" THEN "str" ELSE "str_" \o v.tag, val |-> v.val]

(* ------------------------------ inputs --------------------------------- *)

Symbol == "BTCUSDT"

\* the values of the specification's scenarios (44000, 45000, 48000)
ScenarioPrices == {Num(44000), Num(45000), Num(48000)}
ScenarioQty == Num(10)

Floats == {NaN} \cup {Num(n) : n \in -1..MaxPrice}
OptFloats == {NoneV} \cup Floats
QtyFloats == {NaN, ScenarioQty} \cup {Num(n) : n \in -1..MaxQty}
OptQtyFloats == {NoneV} \cup QtyFloats

\* what float(ticker['price']) can be, or the call/parse raising
TickerReplies == {TickerError, NaN, Num(48000)} \cup {Num(n) : n \in 0..MaxPrice}

DirectSides == {"BUY", "SELL", "sell", "HOLD"}
DirectTypes == {"MARKET", "LIMIT", "STOP_LIMIT", "STOP_MARKET", "stop_limit", "OCO"}
MenuSides == {"BUY", "SELL", "buy", "hold"}
CliSides == {"BUY", "SELL", "buy", "sell"}
CliTypes == {"MARKET", "LIMIT", "STOP_LIMIT", "STOP_MARKET"}

Request(side, order_type, quantity, price, stop_price) ==
    [symbol |-> Symbol, side |-> side, order_type |-> order_type,
     quantity |-> quantity, price |-> price, stop_price |-> stop_price]

NoRequest == Request("", "", NoneV, NoneV, NoneV)


(* ------------------- BasicBot.get_current_price ------------------------ *)

\* faulty variant: a failed lookup reports the sentinel -1.0 instead of None
get_current_price_sentinel(reply) ==
    IF reply.tag = "error" THEN Num(-1) ELSE reply

\* try: float(ticker['price'])  except Exception: return None
get_current_price(reply) ==
    IF reply.tag = "error" THEN NoneV ELSE reply

(* ----------------- BasicBot.validate_order_params ---------------------- *)

valid_types == {"MARKET", "LIMIT", "STOP_LIMIT", "STOP_MARKET"}

MsgSide == "Side must be 'BUY' or 'SELL'"
MsgType == "Order type must be one of valid_types"
MsgQuantity == "Quantity must be greater than 0"
MsgPrice(order_type) == order_type \o " orders require a valid price"
MsgStopPrice(order_type) == order_type \o " orders require a valid stop price"
MsgBuyStop == "For BUY STOP orders, stop price must be ABOVE current market price"
MsgBuyLimit == "For BUY STOP_LIMIT, limit price should be <= stop price"
MsgSellStop == "For SELL STOP orders, stop price must be BELOW current market price"
MsgSellLimit == "For SELL STOP_LIMIT, limit price should be >= stop price"

\* the (is_valid, error_message) tuple returned, with the number of price
\* lookups the call made
Returned(is_valid, error_message, lookups) ==
    [outcome |-> "return", valid |-> is_valid, msg |-> error_message,
     lookups |-> lookups]
\* an exception leaving the function
Raised(exc) ==
    [outcome |-> "raise", valid |-> FALSE, msg |-> exc, lookups |-> 0]
NoResult == [outcome |-> "none", valid |-> FALSE, msg |-> "", lookups |-> 0]

\* side.upper() not in ["BUY", "SELL"]
SideBad(side) == Upper(side) \notin {"BUY", "SELL"}

\* order_type.upper() not in valid_types
TypeBad(order_type) == Upper(order_type) \notin valid_types

\* faulty variant: quantity < 0, so that a quantity of 0 passes
QuantityBad_strict(quantity) == PyLt(quantity, Num(0))

\* quantity <= 0
QuantityBad(quantity) == PyLe(quantity, Num(0))

\* faulty variant: MARKET orders are asked for a limit price too
NeedsPrice_market(order_type) ==
    Upper(order_type) \in {"MARKET", "LIMIT", "STOP_LIMIT"}

\* order_type.upper() in ["LIMIT", "STOP_LIMIT"]
NeedsPrice(order_type) == Upper(order_type) \in {"LIMIT", "STOP_LIMIT"}

\* price is None or price <= 0
PriceBad(price) == price = NoneV \/ PyLe(price, Num(0))

\* order_type.upper() in ["STOP_LIMIT", "STOP_MARKET"]
NeedsStop(order_type) == Upper(order_type) \in {"STOP_LIMIT", "STOP_MARKET"}

\* stop_price is None or stop_price <= 0
StopBad(stop_price) == stop_price = NoneV \/ PyLe(stop_price, Num(0))

\* if current_price:
HasPrice(current_price) == Truthy(current_price)

\* stop_price <= current_price
BuyStopBad(stop_price, current_price) == PyLe(stop_price, current_price)

\* order_type.upper() == "STOP_LIMIT" and price > stop_price
BuyLimitBad(order_type, price, stop_price) ==
    Upper(order_type) = "STOP_LIMIT" /\ PyGt(price, stop_price)

\* stop_price >= current_price
SellStopBad(stop_price, current_price) == PyGe(stop_price, current_price)

\* faulty variant: the SELL branch repeats the comparison of the BUY branch
SellLimitBad_asBuy(order_type, price, stop_price) ==
    Upper(order_type) = "STOP_LIMIT" /\ PyGt(price, stop_price)

\* order_type.upper() == "STOP_LIMIT" and price < stop_price
SellLimitBad(order_type, price, stop_price) ==
    Upper(order_type) = "STOP_LIMIT" /\ PyLt(price, stop_price)

\* the block under `if current_price:`; one lookup has been made
DirectionChecks(side, order_type, price, stop_price, current_price) ==
    IF Upper(side) = "BUY"
    THEN IF BuyStopBad(stop_price, current_price)
         THEN Returned(FALSE, MsgBuyStop, 1)
         ELSE IF BuyLimitBad(order_type, price, stop_price)
         THEN Returned(FALSE, MsgBuyLimit, 1)
         ELSE Returned(TRUE, "", 1)
    ELSE IF SellStopBad(stop_price, current_price)
         THEN Returned(FALSE, MsgSellStop, 1)
         ELSE IF SellLimitBad(order_type, price, stop_price)
         THEN Returned(FALSE, MsgSellLimit, 1)
         ELSE Returned(TRUE, "", 1)

\* faulty variant: the price is looked up before the stop price is checked
StopChecks_lookupFirst(side, order_type, price, stop_price, reply) ==
    IF StopBad(stop_price)
    THEN Returned(FALSE, MsgStopPrice(order_type), 1)
    ELSE LET current_price == get_current_price(reply)
         IN  IF HasPrice(current_price)
             THEN DirectionChecks(side, order_type, price, stop_price, current_price)
             ELSE Returned(TRUE, "", 1)

\* the block under `if order_type.upper() in ["STOP_LIMIT", "STOP_MARKET"]:`
StopChecks(side, order_type, price, stop_price, reply) ==
    IF StopBad(stop_price)
    THEN Returned(FALSE, MsgStopPrice(order_type), 0)
    ELSE LET current_price == get_current_price(reply)
         IN  IF HasPrice(current_price)
             THEN DirectionChecks(side, order_type, price, stop_price, current_price)
             ELSE Returned(TRUE, "", 1)

\* validate_order_params(symbol, side, order_type, quantity, price, stop_price)
\* with `reply` the exchange's answer to the ticker request, should it be made.
\* `quantity <= 0` with quantity None raises TypeError.
validate_order_params(symbol, side, order_type, quantity, price, stop_price, reply) ==
    IF SideBad(side) THEN Returned(FALSE, MsgSide, 0)
    ELSE IF TypeBad(order_type) THEN Returned(FALSE, MsgType, 0)
    ELSE IF quantity = NoneV THEN Raised("TypeError")
    ELSE IF QuantityBad(quantity) THEN Returned(FALSE, MsgQuantity, 0)
    ELSE IF NeedsPrice(order_type) /\ PriceBad(price)
    THEN Returned(FALSE, MsgPrice(order_type), 0)
    ELSE IF NeedsStop(order_type)
    THEN StopChecks(side, order_type, price, stop_price, reply)
    ELSE Returned(TRUE, "", 0)

(* ------------------------------ effects -------------------------------- *)

\* a record of the root logger (file trading_bot.log and the stream handler)
LogEntry(level, text) == [level |-> level, text |-> text]

\* a call of a method of self.client, with what it answered: the reply of a
\* ticker request, TickerError for a call that raised, NoneV otherwise
ApiCall(method, reply) == [method |-> method, reply |-> reply]

\* the ticker request get_current_price makes
TickerCall(reply) == ApiCall("futures_symbol_ticker", reply)

\* logger.warning in get_current_price's except branch
LookupLog(reply) ==
    IF reply.tag = "error"
    THEN <<LogEntry("WARNING", "Could not fetch current price")>>
    ELSE <<>>

\* what a call of validate_order_params with result v does to the exchange
\* client and to the log: the lookup, when it made one
ValidateApi(v, reply) == IF v.lookups > 0 THEN <<TickerCall(reply)>> ELSE <<>>
ValidateLog(v, reply) == IF v.lookups > 0 THEN LookupLog(reply) ELSE <<>>

(* ------------------------ BasicBot.place_order ------------------------- *)

\* faulty variant: the limit price and the stop price change places
CreateOrderArgs_swapped(r) ==
    [symbol |-> r.symbol, side |-> r.side,
     type |-> IF r.order_type = "STOP_LIMIT" THEN "STOP" ELSE r.order_type,
     quantity |-> r.quantity,
     price |-> IF r.order_type \in {"LIMIT", "STOP_LIMIT"}
               THEN Str(r.stop_price) ELSE NoneV,
     stopPrice |-> IF r.order_type \in {"STOP_MARKET", "STOP_LIMIT"}
                   THEN Str(r.price) ELSE NoneV]

\* the keyword arguments of client.futures_create_order, by order type
CreateOrderArgs(r) ==
    [symbol |-> r.symbol, side |-> r.side,
     type |-> IF r.order_type = "STOP_LIMIT" THEN "STOP" ELSE r.order_type,
     quantity |-> r.quantity,
     price |-> IF r.order_type \in {"LIMIT", "STOP_LIMIT"}
               THEN Str(r.price) ELSE NoneV,
     stopPrice |-> IF r.order_type \in {"STOP_MARKET", "STOP_LIMIT"}
                   THEN Str(r.stop_price) ELSE NoneV]

\* faulty variant: the `return None` after the validation error is missing
AfterValidation_noReturn(v) ==
    IF v.outcome = "raise" THEN "done" ELSE "placing"

\* `if not is_valid: ... return None`: where place_order goes after validating
AfterValidation(v) ==
    IF v.outcome = "return" /\ v.valid THEN "placing" ELSE "done"

\* logger.info(f" Placing {order_type} {side} order for {symbol}")
Placing(r) ==
    "Placing " \o r.order_type \o " " \o r.side \o " order for " \o r.symbol

\* the three handlers of place_order: what they log and what they print
OrderFailures ==
    {[exc |-> "BinanceAPIException", log |-> "Binance API Error",
      out |-> "Order Failed"],
     [exc |-> "BinanceRequestException", log |-> "Request Error",
      out |-> "Request Failed"],
     [exc |-> "Exception", log |-> "Unexpected error",
      out |-> "Order placement failed"]}

(* ---------------------------- interactive_mode ------------------------- *)

\* str.lower() on the answers the model uses
Lower(s) ==
    CASE s = "YES" -> "yes"
      [] s = "Yes" -> "yes"
      [] s = "NO" -> "no"
      [] s = "Y" -> "y"
      [] OTHER -> s

\* what the user may answer to "Cancel ALL orders for ...? (yes/no)";
\* get_input strips it and never returns an empty answer
ConfirmAnswers == {"yes", "YES", "Yes", "no", "NO", "y", "Y", "ok"}

\* faulty variant: anything but "no" confirms
ConfirmYes_notNo(answer) == Lower(answer) # "no"

\* confirm = get_input(...).lower(); if confirm == "yes":
ConfirmYes(answer) == Lower(answer) = "yes"

\* menu choices that are none of "0" .. "9"
OtherChoices == {"10", "x"}

(* -------------------------- BasicBot methods --------------------------- *)

\* an answer of the exchange's client other than a ticker reply:
\*   Reply("rows")       a list with an entry to show
\*   Reply("empty")      an empty list
\*   Reply("bad_rows")   a list with an entry that cannot be shown (the
\*                       formatting raises after the title is printed)
\*   Reply("api_error")  the call raised BinanceAPIException
\*   TickerError         the call raised another exception
\*   Reply("unusable")   futures_create_order returned something that is no order
\*   NoneV               the call returned; the answer is not looked at
Reply(kind) == [tag |-> kind, val |-> 0]

\* what a step does: its client calls, its log records, the lines it prints
Eff(calls, logs, outs) == [api |-> calls, log |-> logs, out |-> outs]
NoEff == Eff(<<>>, <<>>, <<>>)

\* how BasicBot.__init__ can end: the ping answers; the ping raises (logged,
\* raised again); Client(...) itself raises, before the try block
ConnectOutcomes == {"connected", "ping_failed", "client_failed"}

\* BasicBot.__init__ with testnet=True
Connect(how) ==
    IF how = "client_failed"
    THEN NoEff
    ELSE Eff(<<ApiCall("futures_ping",
                       IF how = "connected" THEN NoneV ELSE TickerError)>>,
             <<LogEntry("INFO", "Using Binance Futures Testnet"),
               IF how = "connected"
               THEN LogEntry("INFO", "Connected to Binance Futures Testnet successfully!")
               ELSE LogEntry("ERROR", "Connection to Binance Futures Testnet failed")>>,
             <<>>)

BalanceReplies == {Reply("rows"), Reply("bad_rows"), Reply("api_error"), TickerError}

\* BasicBot.get_balance
get_balance(reply) ==
    Eff(<<ApiCall("futures_account_balance", reply)>>,
        CASE reply.tag = "rows" ->
               <<LogEntry("INFO", "Balance fetched successfully.")>>
          [] reply.tag = "bad_rows" ->
               <<LogEntry("INFO", "Balance fetched successfully."),
                 LogEntry("ERROR", "Failed to fetch balance")>>
          [] reply.tag = "api_error" ->
               <<LogEntry("ERROR", "Binance API Error fetching balance")>>
          [] OTHER -> <<LogEntry("ERROR", "Failed to fetch balance")>>,
        IF reply.tag \in {"rows", "bad_rows"}
        THEN <<"ACCOUNT BALANCES (FUTURES TESTNET)">> ELSE <<>>)

\* BasicBot.show_current_price
show_current_price(reply) ==
    IF reply.tag = "error"
    THEN Eff(<<TickerCall(reply)>>,
             <<LogEntry("ERROR", "Failed to fetch price")>>,
             <<"Failed to fetch price">>)
    ELSE Eff(<<TickerCall(reply)>>,
             <<LogEntry("INFO", "Current price")>>,
             <<"CURRENT MARKET PRICE">>)

OrdersReplies == {Reply("rows"), Reply("empty"), Reply("bad_rows"), TickerError}

\* BasicBot.get_open_orders
get_open_orders(reply) ==
    Eff(<<ApiCall("futures_get_open_orders", reply)>>,
        CASE reply.tag \in {"rows", "empty"} ->
               <<LogEntry("INFO", "Retrieved open orders")>>
          [] reply.tag = "bad_rows" ->
               <<LogEntry("INFO", "Retrieved open orders"),
                 LogEntry("ERROR", "Failed to fetch open orders")>>
          [] OTHER -> <<LogEntry("ERROR", "Failed to fetch open orders")>>,
        CASE reply.tag = "empty" -> <<"No open orders for " \o Symbol>>
          [] reply.tag = "rows" -> <<"OPEN ORDERS FOR " \o Symbol>>
          [] reply.tag = "bad_rows" ->
               <<"OPEN ORDERS FOR " \o Symbol, "Failed to retrieve orders">>
          [] OTHER -> <<"Failed to retrieve orders">>)

\* "rows": a position with positionAmt # 0; "empty": none such; "bad_rows":
\* such a position whose row cannot be shown; TickerError: the call raised,
\* or positionAmt cannot be read (before anything is logged)
PositionsReplies == {Reply("rows"), Reply("empty"), Reply("bad_rows"), TickerError}

\* BasicBot.get_positions(symbol), symbol given
get_positions(reply) ==
    Eff(<<ApiCall("futures_position_information", reply)>>,
        CASE reply.tag \in {"rows", "empty"} ->
               <<LogEntry("INFO", "Retrieved active positions")>>
          [] reply.tag = "bad_rows" ->
               <<LogEntry("INFO", "Retrieved active positions"),
                 LogEntry("ERROR", "Failed to fetch positions")>>
          [] OTHER -> <<LogEntry("ERROR", "Failed to fetch positions")>>,
        CASE reply.tag = "empty" -> <<"No active positions for " \o Symbol>>
          [] reply.tag = "rows" -> <<"ACTIVE POSITIONS FOR " \o Symbol>>
          [] reply.tag = "bad_rows" ->
               <<"ACTIVE POSITIONS FOR " \o Symbol, "Failed to retrieve positions">>
          [] OTHER -> <<"Failed to retrieve positions">>)

CancelReplies == {NoneV, Reply("api_error"), TickerError}

\* BasicBot.cancel_order: both except clauses log and print the same texts
cancel_order(reply) ==
    IF reply = NoneV
    THEN Eff(<<ApiCall("futures_cancel_order", reply)>>,
             <<LogEntry("INFO", "Order canceled successfully")>>,
             <<"Order canceled for " \o Symbol>>)
    ELSE Eff(<<ApiCall("futures_cancel_order", reply)>>,
             <<LogEntry("ERROR", "Failed to cancel order")>>,
             <<"Cancel failed">>)

\* BasicBot.cancel_all_orders: the client call, and what is logged and printed
CancelAllOrders(ok) ==
    [api |-> <<ApiCall("futures_cancel_all_open_orders",
                       IF ok THEN NoneV ELSE TickerError)>>,
     log |-> IF ok THEN <<LogEntry("INFO", "All orders canceled")>>
             ELSE <<LogEntry("ERROR", "Failed to cancel all orders")>>,
     out |-> IF ok THEN <<"All orders canceled">>
             ELSE <<"Failed to cancel all orders">>]

(* ------------------------------ state ---------------------------------- *)
\* A step is the construction of the bot, one branch of the menu (from the
\* choice to "Press Enter to continue"), one call made by command_line_mode,
\* or one direct call of validate_order_params.
\* pc      "idle"     nothing in progress (main is about to dispatch, or the
\*                    menu is about to prompt)
\*         "init_failed" BasicBot.__init__ raised
\*         "prompt"   menu choice 4 or 5 has shown the price and asks for the order
\*         "returned" a direct call of validate_order_params has finished
\*         "placing"  place_order has validated and is about to call the exchange
\*         "done"     the step has finished; place_order has returned or raised
\*         "exited"   the program has ended (sys.exit(0), or main returned)
\* entry   who is running: "none" (nobody yet), "direct", "menu" or "cli"
\* choice  the menu choice being handled, or the part of the command line
\*         command_line_mode is at; "" otherwise
\* confirm the answer to the cancel-all confirmation prompt, "" when not asked
\* req     the arguments validate_order_params received
\* ticker  the exchange's answer to a ticker request during validation
\* result  what validate_order_params did
\* validations  the number of validate_order_params calls of this step
\* sent    the futures_create_order calls made by this place_order
\* ret     what place_order did: "order", "None" or "raised"
\* api     the calls of self.client methods made by this step, in order
\* log     the log records written by this step, in order
\* out     the title and message lines this step printed, in order (the menu,
\*         the input prompts with get_input's requests to try again, rulers
\*         and detail rows are left out)

\* BasicBot(api_key, api_secret, testnet=True) has run: connected, or raised
\* (at the ping, or already at the construction of the client)
Init ==
    /\ entry = "none"
    /\ choice = ""
    /\ confirm = ""
    /\ req = NoRequest
    /\ ticker = TickerError
    /\ result = NoResult
    /\ validations = 0
    /\ sent = <<>>
    /\ ret = "none"
    /\ \E how \in ConnectOutcomes :
          /\ pc = (IF how = "connected" THEN "idle" ELSE "init_failed")
          /\ api = Connect(how).api
          /\ log = Connect(how).log
          /\ out = Connect(how).out

\* main, when BasicBot raised: log the failure and return
MainInitFailed ==
    /\ pc = "init_failed"
    /\ pc' = "exited"
    /\ log' = Append(log, LogEntry("ERROR", "Failed to initialize bot"))
    /\ UNCHANGED <<entry, choice, confirm, req, ticker, result, validations,
                   sent, ret, api, out>>

\* main has not dispatched yet / the menu is about to prompt / a caller that
\* holds a constructed bot is about to call the validator on it
Fresh == pc = "idle" /\ entry = "none"
AtMenu == pc = "idle" /\ entry = "menu"
AtCaller == pc = "idle" /\ entry \in {"none", "direct"}

\* validate_order_params called on its own
ValidateDirect ==
    /\ AtCaller
    /\ \E side \in DirectSides, order_type \in DirectTypes,
          quantity \in QtyFloats,
          price \in OptFloats \cup ScenarioPrices,
          stop_price \in OptFloats \cup ScenarioPrices,
          reply \in TickerReplies :
          LET v == validate_order_params(Symbol, side, order_type, quantity,
                                         price, stop_price, reply)
          IN  /\ req' = Request(side, order_type, quantity, price, stop_price)
              /\ ticker' = reply
              /\ result' = v
              /\ api' = ValidateApi(v, reply)
              /\ log' = ValidateLog(v, reply)
    /\ pc' = "returned"
    /\ entry' = "direct"
    /\ validations' = 1
    /\ out' = <<>>
    /\ UNCHANGED <<choice, confirm, sent, ret>>

\* place_order up to the exchange call, entered from the caller `who` that
\* has done `before` in this step: upper-case side and type, validate, report
\* and return None when invalid
PlaceOrderBegin(who, side0, order_type0, quantity, price, stop_price, reply, before) ==
    LET side == Upper(side0)
        order_type == Upper(order_type0)
        v == validate_order_params(Symbol, side, order_type, quantity,
                                   price, stop_price, reply)
        rejected == v.outcome = "return" /\ ~v.valid
    IN  /\ entry' = who
        /\ req' = Request(side, order_type, quantity, price, stop_price)
        /\ ticker' = reply
        /\ result' = v
        /\ validations' = 1
        /\ sent' = <<>>
        /\ pc' = AfterValidation(v)
        /\ ret' = IF v.outcome = "raise" THEN "raised"
                  ELSE IF v.valid THEN "none" ELSE "None"
        /\ api' = before.api \o ValidateApi(v, reply)
        /\ log' = before.log \o ValidateLog(v, reply) \o
                  (IF rejected
                   THEN <<LogEntry("ERROR", "Validation Error: " \o v.msg)>>
                   ELSE <<>>)
        /\ out' = before.out \o
                  (IF rejected THEN <<"Order Error: " \o v.msg>> ELSE <<>>)

\* futures_create_order returns the order; place_order returns it
ExchangeAccepts ==
    /\ pc = "placing"
    /\ sent' = Append(sent, CreateOrderArgs(req))
    /\ api' = Append(api, ApiCall("futures_create_order", NoneV))
    /\ log' = log \o <<LogEntry("INFO", Placing(req)),
                       LogEntry("INFO", "Order placed successfully!")>>
    /\ out' = Append(out, "ORDER PLACED SUCCESSFULLY!")
    /\ ret' = "order"
    /\ pc' = "done"
    /\ UNCHANGED <<entry, choice, confirm, req, ticker, result, validations>>

\* futures_create_order raises; place_order logs it and returns None
ExchangeFails ==
    /\ pc = "placing"
    /\ sent' = Append(sent, CreateOrderArgs(req))
    /\ api' = Append(api, ApiCall("futures_create_order", TickerError))
    /\ \E f \in OrderFailures :
          /\ log' = log \o <<LogEntry("INFO", Placing(req)),
                             LogEntry("ERROR", f.log)>>
          /\ out' = Append(out, f.out)
    /\ ret' = "None"
    /\ pc' = "done"
    /\ UNCHANGED <<entry, choice, confirm, req, ticker, result, validations>>

\* futures_create_order returns something that is no order (it has no .get):
\* the order was sent, place_order logs "Unexpected error" and returns None
ExchangeAnswersUnusable ==
    /\ pc = "placing"
    /\ sent' = Append(sent, CreateOrderArgs(req))
    /\ api' = Append(api, ApiCall("futures_create_order", Reply("unusable")))
    /\ log' = log \o <<LogEntry("INFO", Placing(req)),
                       LogEntry("ERROR", "Unexpected error")>>
    /\ out' = Append(out, "Order placement failed")
    /\ ret' = "None"
    /\ pc' = "done"
    /\ UNCHANGED <<entry, choice, confirm, req, ticker, result, validations>>

\* a step that validates nothing and places nothing, and does `eff`
Handler(who, ch, answer, eff, nextpc) ==
    /\ entry' = who
    /\ choice' = ch
    /\ confirm' = answer
    /\ api' = eff.api
    /\ log' = eff.log
    /\ out' = eff.out
    /\ pc' = nextpc
    /\ req' = NoRequest
    /\ ticker' = TickerError
    /\ result' = NoResult
    /\ validations' = 0
    /\ sent' = <<>>
    /\ ret' = "none"

(* ---------------------------- interactive_mode ------------------------- *)

\* main with --interactive: interactive_mode prints the banner
InteractiveStart ==
    /\ Fresh
    /\ Handler("menu", "", "",
               Eff(<<>>, <<>>, <<"BINANCE FUTURES TRADING BOT (TESTNET)">>),
               "idle")

\* interactive_mode, choice "1": bot.get_balance()
MenuBalance ==
    /\ AtMenu
    /\ \E reply \in BalanceReplies :
          Handler("menu", "1", "", get_balance(reply), "done")

\* interactive_mode, choice "2": bot.show_current_price(symbol)
MenuShowPrice ==
    /\ AtMenu
    /\ \E reply \in TickerReplies :
          Handler("menu", "2", "", show_current_price(reply), "done")

\* interactive_mode, choice "3": place_order(symbol, side, "MARKET", quantity)
MenuMarket ==
    /\ AtMenu
    /\ choice' = "3"
    /\ confirm' = ""
    /\ \E side \in MenuSides, quantity \in QtyFloats, reply \in TickerReplies :
        PlaceOrderBegin("menu", Upper(side), "MARKET", quantity, NoneV, NoneV,
                        reply, Eff(<<>>, <<>>, <<"PLACE MARKET ORDER">>))

\* interactive_mode, choices "4" and "5" up to the prompts: the current price
\* is fetched, and shown when it is true
MenuPricePrompt ==
    /\ AtMenu
    /\ \E c \in {"4", "5"}, shown \in TickerReplies :
          /\ choice' = c
          /\ api' = <<TickerCall(shown)>>
          /\ log' = LookupLog(shown)
          /\ out' = <<IF c = "4" THEN "PLACE LIMIT ORDER"
                      ELSE "PLACE STOP-LIMIT ORDER (ADVANCED)">> \o
                    (IF ~Truthy(get_current_price(shown)) THEN <<>>
                     ELSE IF c = "4" THEN <<"Current Price">>
                     ELSE <<"Current Price", "Quick Guide">>)
    /\ pc' = "prompt"
    /\ UNCHANGED <<entry, confirm, req, ticker, result, validations, sent, ret>>

\* interactive_mode, choice "4": place_order(symbol, side, "LIMIT", quantity, price)
MenuLimit ==
    /\ pc = "prompt"
    /\ choice = "4"
    /\ UNCHANGED <<choice, confirm>>
    /\ \E side \in MenuSides, quantity \in QtyFloats, price \in Floats,
       reply \in TickerReplies :
        PlaceOrderBegin("menu", Upper(side), "LIMIT", quantity, price, NoneV,
                        reply, Eff(api, log, out))

\* interactive_mode, choice "5":
\* place_order(symbol, side, "STOP_LIMIT", quantity, price, stop_price)
MenuStopLimit ==
    /\ pc = "prompt"
    /\ choice = "5"
    /\ UNCHANGED <<choice, confirm>>
    /\ \E side \in MenuSides, quantity \in QtyFloats, price \in Floats,
       stop_price \in Floats, reply \in TickerReplies :
        PlaceOrderBegin("menu", Upper(side), "STOP_LIMIT", quantity, price,
                        stop_price, reply, Eff(api, log, out))

\* interactive_mode, choice "6": bot.get_open_orders(symbol)
MenuOpenOrders ==
    /\ AtMenu
    /\ \E reply \in OrdersReplies :
          Handler("menu", "6", "", get_open_orders(reply), "done")

\* interactive_mode, choice "7": bot.get_positions(symbol); get_input does
\* not return an empty symbol
MenuPositions ==
    /\ AtMenu
    /\ \E reply \in PositionsReplies :
          Handler("menu", "7", "", get_positions(reply), "done")

\* interactive_mode, choice "8": bot.cancel_order(symbol, order_id)
MenuCancelOrder ==
    /\ AtMenu
    /\ \E reply \in CancelReplies :
          Handler("menu", "8", "", cancel_order(reply), "done")

\* interactive_mode, choice "9": ask for confirmation, then
\* bot.cancel_all_orders(symbol) or print "Cancelled."
MenuCancelAll ==
    /\ AtMenu
    /\ \E answer \in ConfirmAnswers, ok \in BOOLEAN :
          IF ConfirmYes(answer)
          THEN Handler("menu", "9", answer, CancelAllOrders(ok), "done")
          ELSE Handler("menu", "9", answer,
                       Eff(<<>>, <<>>, <<"Cancelled.">>), "done")

\* interactive_mode, choice "0": sys.exit(0)
MenuExit ==
    /\ AtMenu
    /\ Handler("menu", "0", "",
               Eff(<<>>, <<LogEntry("INFO", "Bot session ended by user")>>,
                   <<"Thank you for using Binance Futures Trading Bot!">>),
               "exited")

\* interactive_mode, any other choice
MenuInvalid ==
    /\ AtMenu
    /\ \E c \in OtherChoices :
          Handler("menu", c, "",
                  Eff(<<>>, <<>>, <<"Invalid choice. Please select 0-9.">>),
                  "done")

(* ---------------------------- command_line_mode ------------------------ *)

\* the calls of command_line_mode in the order of its code; each but the
\* first is made only when its arguments are on the command line
CliRank(ch) ==
    CASE ch = "get_balance" -> 1
      [] ch = "--show-price" -> 2
      [] ch = "--side --type" -> 3
      [] ch = "--show-orders" -> 4
      [] ch = "--show-positions" -> 5
      [] ch = "--cancel-order" -> 6
      [] ch = "--cancel-all" -> 7
      [] OTHER -> 0

\* command_line_mode has finished an earlier call and comes to the k-th; an
\* exception that left place_order has ended the program
CliAt(k) ==
    /\ pc = "done"
    /\ entry = "cli"
    /\ ret # "raised"
    /\ CliRank(choice) < k

\* main without --interactive and without --symbol
CliNoSymbol ==
    /\ Fresh
    /\ Handler("cli", "", "",
               Eff(<<>>, <<>>,
                   <<"Error: --symbol is required in command-line mode",
                     "Tip: Use --interactive or -i for menu mode">>),
               "exited")

\* command_line_mode begins: bot.get_balance()
CliBalance ==
    /\ Fresh
    /\ \E reply \in BalanceReplies :
          Handler("cli", "get_balance", "", get_balance(reply), "done")

\* --show-price: bot.show_current_price(args.symbol)
CliShowPrice ==
    /\ CliAt(2)
    /\ \E reply \in TickerReplies :
          Handler("cli", "--show-price", "", show_current_price(reply), "done")

\* --side and --type given: bot.place_order(...); --quantity, --price and
\* --stop-price are optional floats
CliPlaceOrder ==
    /\ CliAt(3)
    /\ choice' = "--side --type"
    /\ confirm' = ""
    /\ \E side \in CliSides, order_type \in CliTypes, quantity \in OptQtyFloats,
       price \in OptFloats, stop_price \in OptFloats, reply \in TickerReplies :
        PlaceOrderBegin("cli", side, order_type, quantity, price, stop_price,
                        reply, NoEff)

\* --show-orders: bot.get_open_orders(args.symbol)
CliOpenOrders ==
    /\ CliAt(4)
    /\ \E reply \in OrdersReplies :
          Handler("cli", "--show-orders", "", get_open_orders(reply), "done")

\* --show-positions: bot.get_positions(args.symbol)
CliPositions ==
    /\ CliAt(5)
    /\ \E reply \in PositionsReplies :
          Handler("cli", "--show-positions", "", get_positions(reply), "done")

\* --cancel-order N with N # 0: bot.cancel_order(args.symbol, N)
CliCancelOrder ==
    /\ CliAt(6)
    /\ \E reply \in CancelReplies :
          Handler("cli", "--cancel-order", "", cancel_order(reply), "done")

\* --cancel-all: bot.cancel_all_orders(args.symbol)
CliCancelAll ==
    /\ CliAt(7)
    /\ \E ok \in BOOLEAN :
          Handler("cli", "--cancel-all", "", CancelAllOrders(ok), "done")

\* the menu loops after "Press Enter to continue"; the caller of a direct
\* validation goes on to its next call
NextCall ==
    /\ pc \in {"returned", "done"}
    /\ entry \in {"direct", "menu"}
    /\ Handler(entry, "", "", NoEff, "idle")

Next ==
    \/ MainInitFailed
    \/ ValidateDirect
    \/ InteractiveStart
    \/ MenuBalance
    \/ MenuShowPrice
    \/ MenuMarket
    \/ MenuPricePrompt
    \/ MenuLimit
    \/ MenuStopLimit
    \/ MenuOpenOrders
    \/ MenuPositions
    \/ MenuCancelOrder
    \/ MenuCancelAll
    \/ MenuExit
    \/ MenuInvalid
    \/ CliNoSymbol
    \/ CliBalance
    \/ CliShowPrice
    \/ CliPlaceOrder
    \/ CliOpenOrders
    \/ CliPositions
    \/ CliCancelOrder
    \/ CliCancelAll
    \/ ExchangeAccepts
    \/ ExchangeFails
    \/ ExchangeAnswersUnusable
    \/ NextCall

Spec == Init /\ [][Next]_vars

(* ======================= properties of the claims ====================== *)

\* a validation has been carried out on req, with the exchange answering ticker
Validated == validations > 0

\* the verdicts
Valid == result.outcome = "return" /\ result.valid
Invalid == result.outcome = "return" /\ ~result.valid /\ result.msg # ""

\* a real number that is strictly positive / that is <= 0
Positive(v) == IsNum(v) /\ v.val > 0
NonPositive(v) == IsNum(v) /\ v.val <= 0
\* an optional value that is absent or <= 0
AbsentOrNonPositive(v) == v = NoneV \/ NonPositive(v)

ReqSide == Upper(req.side)
ReqType == Upper(req.order_type)
SideGiven == ReqSide \in {"BUY", "SELL"}
StopType == ReqType \in {"STOP_LIMIT", "STOP_MARKET"}

\* the request passes the side, type, quantity, limit-price presence and
\* stop-price presence checks, with real-valued fields
PassesPresence ==
    /\ SideGiven
    /\ StopType
    /\ Positive(req.quantity)
    /\ (ReqType = "STOP_LIMIT" => Positive(req.price))
    /\ Positive(req.stop_price)

\* the same, for any field value that is not absent and not <= 0
PassesPresenceChecks ==
    /\ SideGiven
    /\ StopType
    /\ ~AbsentOrNonPositive(req.quantity)
    /\ (ReqType = "STOP_LIMIT" => ~AbsentOrNonPositive(req.price))
    /\ ~AbsentOrNonPositive(req.stop_price)

\* the price lookup returned a (real) current price / returned no price
PriceReturned == IsNum(ticker)
NoPriceReturned == ticker.tag = "error"

\* the stop price is on the side of the current price that the order side needs
StopConsistent ==
    /\ PriceReturned
    /\ IsNum(req.stop_price)
    /\ (ReqSide = "BUY" => req.stop_price.val > ticker.val)
    /\ (ReqSide = "SELL" => req.stop_price.val < ticker.val)

\* the limit price is on the side of the stop price that the order side needs
LimitConsistent ==
    /\ IsNum(req.price)
    /\ IsNum(req.stop_price)
    /\ (ReqSide = "BUY" => req.price.val <= req.stop_price.val)
    /\ (ReqSide = "SELL" => req.price.val >= req.stop_price.val)

(* ---- C1 ---- *)
\* C1: a stop request that passes the presence checks, validated while the
\* price lookup returns a current price, is rejected unless its stop price is
\* strictly above (BUY) or strictly below (SELL) the current price.
\* The code skips the check when the price returned is 0.0.
C1_StopDirectionEnforced ==
    (Validated /\ PassesPresence /\ PriceReturned /\ ~StopConsistent) => Invalid

(* ---- C2 ---- *)
\* C2: a STOP_LIMIT request whose stop price is directionally consistent with
\* an available current price is Valid exactly when limitPrice <= stopPrice
\* (BUY) or limitPrice >= stopPrice (SELL); a STOP_MARKET request in the same
\* situation is Valid whatever its limit price.
\* The code skips the limit-vs-stop check when the price returned is 0.0.
C2_LimitVsStopDecides ==
    (Validated /\ PassesPresence /\ StopConsistent) =>
        /\ (ReqType = "STOP_LIMIT" => (Valid <=> LimitConsistent))
        /\ (ReqType = "STOP_LIMIT" => (Invalid <=> ~LimitConsistent))
        /\ (ReqType = "STOP_MARKET" => Valid)

(* ---- C3 ---- *)
\* Scenario C: SELL STOP_LIMIT, quantity 0.01, stopPrice 45000,
\* limitPrice 44000, validated while the current price is 48000
ScenarioC ==
    /\ Validated
    /\ req.side = "SELL"
    /\ req.order_type = "STOP_LIMIT"
    /\ req.quantity = Num(10)
    /\ req.stop_price = Num(45000)
    /\ req.price = Num(44000)
    /\ ticker = Num(48000)

\* C3 as stated: Scenario C is Valid.
C3_ScenarioCValid == ScenarioC => Valid

\* C3 amended: Scenario C is Invalid, rejected by the limit-vs-stop check
\* (for SELL the limit price must be >= the stop price, and 44000 < 45000).
C3_ScenarioCInvalid ==
    ScenarioC => (Invalid /\ result.msg = MsgSellLimit)

C3_Witness == ScenarioC /\ ~result.valid /\ result.lookups = 1

(* ---- C4 ---- *)
\* C4: when the price lookup returns no price, every stop request that passes
\* the side, type, quantity, limit-price and stop-price presence checks is
\* Valid, whatever the relation between stop price, limit price and market.
C4_NoPriceSkipsDirection ==
    (Validated /\ PassesPresenceChecks /\ NoPriceReturned) => Valid

\* a SELL STOP_LIMIT with its limit below its stop, accepted on a failed lookup
C4_Witness ==
    /\ Validated /\ PassesPresenceChecks /\ NoPriceReturned
    /\ ReqSide = "SELL" /\ ReqType = "STOP_LIMIT"
    /\ ~LimitConsistent
    /\ Valid /\ result.lookups = 1

(* ---- C5 ---- *)
\* the reason of the first failing check in the order side, type, quantity,
\* limit-price presence, stop-price presence, stop-vs-market, limit-vs-stop;
\* "" when no check fails
FirstFailure ==
    IF ~SideGiven THEN MsgSide
    ELSE IF ReqType \notin {"MARKET", "LIMIT", "STOP_LIMIT", "STOP_MARKET"}
    THEN MsgType
    ELSE IF ~Positive(req.quantity) THEN MsgQuantity
    ELSE IF ReqType \in {"LIMIT", "STOP_LIMIT"} /\ ~Positive(req.price)
    THEN MsgPrice(req.order_type)
    ELSE IF StopType /\ ~Positive(req.stop_price)
    THEN MsgStopPrice(req.order_type)
    ELSE IF StopType /\ PriceReturned /\ ~StopConsistent
    THEN (IF ReqSide = "BUY" THEN MsgBuyStop ELSE MsgSellStop)
    ELSE IF ReqType = "STOP_LIMIT" /\ PriceReturned /\ ~LimitConsistent
    THEN (IF ReqSide = "BUY" THEN MsgBuyLimit ELSE MsgSellLimit)
    ELSE ""

\* every field of the request is absent or a real number, and so is the price
RealValued ==
    /\ req.quantity.tag \in {"none", "num"}
    /\ req.price.tag \in {"none", "num"}
    /\ req.stop_price.tag \in {"none", "num"}
    /\ ticker.tag \in {"error", "num"}

\* C5: validation reports exactly the reason of the first failing check in the
\* fixed order, and Valid when no check fails.
\* Fails with C10 (an absent quantity raises instead of giving the quantity
\* reason) and with C1 (a current price of 0.0 gives no direction reason).
C5_FirstFailingCheckReported ==
    (Validated /\ RealValued) =>
        /\ result.outcome = "return"
        /\ result.msg = FirstFailure
        /\ result.valid = (FirstFailure = "")

(* ---- C6 ---- *)
\* C6: for every order type and side, a request with quantity <= 0 is Invalid
\* whatever its limit price, its stop price and the result of the lookup.
C6_NonPositiveQuantityInvalid ==
    (Validated /\ NonPositive(req.quantity)) => Invalid

\* quantity 0 on an otherwise acceptable stop-limit order
C6_Witness ==
    /\ Validated /\ req.quantity = Num(0)
    /\ ReqSide = "BUY" /\ ReqType = "STOP_LIMIT"
    /\ Positive(req.price) /\ StopConsistent /\ LimitConsistent
    /\ Invalid /\ result.msg = MsgQuantity

(* ---- C7 ---- *)
\* C7: a LIMIT or STOP_LIMIT request with an absent limit price or a limit
\* price <= 0 is Invalid, whatever the stop price and the lookup result.
\* Fails with C10: with the quantity absent the validator raises first.
C7_BadLimitPriceInvalid ==
    (Validated /\ ReqType \in {"LIMIT", "STOP_LIMIT"}
        /\ AbsentOrNonPositive(req.price)) => Invalid

(* ---- C8 ---- *)
\* C8: a STOP_LIMIT or STOP_MARKET request with an absent stop price or a stop
\* price <= 0 is Invalid, whatever the lookup result.
\* Fails with C10: with the quantity absent the validator raises first.
C8_BadStopPriceInvalid ==
    (Validated /\ StopType /\ AbsentOrNonPositive(req.stop_price)) => Invalid

(* ---- C9 ---- *)
\* C9: a MARKET request with side BUY or SELL and quantity > 0 is Valid whether
\* or not limit and stop price are supplied and whatever the market price; the
\* verdict of a MARKET request with a real quantity is Valid exactly when the
\* side is BUY or SELL and the quantity is > 0, and no price lookup is made.
C9_MarketIgnoresPrices ==
    (Validated /\ ReqType = "MARKET") =>
        /\ (SideGiven /\ Positive(req.quantity) => Valid)
        /\ (IsNum(req.quantity) =>
               /\ result.outcome = "return"
               /\ result.valid = (SideGiven /\ Positive(req.quantity))
               /\ result.lookups = 0)

\* a MARKET order carrying non-positive limit and stop prices, accepted while
\* the exchange reports a price
C9_Witness ==
    /\ Validated /\ ReqType = "MARKET" /\ SideGiven /\ Positive(req.quantity)
    /\ NonPositive(req.price) /\ NonPositive(req.stop_price)
    /\ PriceReturned
    /\ Valid

(* ---- C10 ---- *)
\* C10: validate_order_params never raises for any request place_order hands
\* it from the menu or from command-line mode, and any lookup outcome.
\* The code raises TypeError on `quantity <= 0` when --quantity is absent.
C10_ValidatorNeverRaises ==
    (Validated /\ entry \in {"menu", "cli"}) =>
        (result.outcome = "return" /\ ret # "raised")

(* ---- C11 ---- *)
\* this handler is a run of place_order
InPlaceOrder == pc = "placing" \/ ret # "none"

\* an order-creation call is among the client calls of this handler
OrderCallMade == \E i \in 1..Len(api) : api[i].method = "futures_create_order"

\* place_order has reported the reason of the rejection: logged and printed
ReasonReported ==
    /\ \E i \in 1..Len(log) :
          log[i] = LogEntry("ERROR", "Validation Error: " \o result.msg)
    /\ \E i \in 1..Len(out) : out[i] = "Order Error: " \o result.msg

\* no order-creation call without a Valid verdict; an Invalid verdict ends
\* place_order with the reason reported, no call made and no order returned
C11_StateRule ==
    /\ ((sent # <<>> \/ OrderCallMade) => (Valid /\ validations = 1))
    /\ ((InPlaceOrder /\ Invalid) =>
           /\ pc = "done"
           /\ ReasonReported
           /\ sent = <<>>
           /\ ~OrderCallMade
           /\ ret = "None")

\* a step that calls the exchange starts after a Valid verdict on the request
\* it sends, and leaves request and verdict as they are
C11_StepRule ==
    Len(sent') > Len(sent) =>
        /\ pc = "placing" /\ Valid /\ validations = 1
        /\ req' = req /\ result' = result

\* C11: in every run of place_order the order-creation call is made only after
\* validate_order_params returned Valid for that same request; on Invalid,
\* place_order reports the reason, makes no order-creation call and returns
\* no order.
C11_OrderOnlyAfterValid == [](C11_StateRule) /\ [][C11_StepRule]_vars

\* a stop order refused for its direction: reported, nothing sent, None returned
C11_Witness ==
    /\ InPlaceOrder /\ Invalid /\ result.msg = MsgBuyStop
    /\ ReasonReported /\ sent = <<>> /\ ret = "None" /\ pc = "done"

(* ---- C12 ---- *)
\* a float as the text the exchange call carries; an absent value stays absent
Carried(v) == IF v = NoneV THEN NoneV ELSE Str(v)

\* the order-creation call of this run raised
ExchangeFailed ==
    \E i \in 1..Len(api) :
        api[i] = ApiCall("futures_create_order", TickerError)

\* one validation, at most one order-creation call, none repeated after a
\* failure, which returns no order
C12_OnceEach ==
    /\ validations = 1
    /\ Len(sent) <= 1
    /\ Cardinality({i \in 1..Len(api) : api[i].method = "futures_create_order"})
          = Len(sent)
    /\ (ExchangeFailed => (pc = "done" /\ Len(sent) = 1 /\ ret = "None"))

\* C12 as stated: each place_order call validates once and makes at most one
\* order-creation call carrying the same symbol, side, type, quantity, limit
\* price and stop price that were validated; a failed call is not repeated
\* and place_order returns no order.
C12_SameRequestSent ==
    InPlaceOrder =>
        /\ C12_OnceEach
        /\ (sent # <<>> =>
               /\ sent[1].symbol = req.symbol
               /\ sent[1].side = req.side
               /\ sent[1].type = req.order_type
               /\ sent[1].quantity = req.quantity
               /\ sent[1].price = Carried(req.price)
               /\ sent[1].stopPrice = Carried(req.stop_price))

\* C12 amended: the call carries the validated symbol, side and quantity, the
\* validated type under the exchange's name (STOP for STOP_LIMIT), the limit
\* price only for LIMIT and STOP_LIMIT and the stop price only for STOP_MARKET
\* and STOP_LIMIT; the rest as stated.
C12_RequestSentAsExchangeOrder ==
    InPlaceOrder =>
        /\ C12_OnceEach
        /\ (sent # <<>> =>
               /\ sent[1].symbol = req.symbol
               /\ sent[1].side = req.side
               /\ sent[1].type = (IF req.order_type = "STOP_LIMIT"
                                  THEN "STOP" ELSE req.order_type)
               /\ sent[1].quantity = req.quantity
               /\ sent[1].price = (IF req.order_type \in {"LIMIT", "STOP_LIMIT"}
                                   THEN Carried(req.price) ELSE NoneV)
               /\ sent[1].stopPrice =
                      (IF req.order_type \in {"STOP_MARKET", "STOP_LIMIT"}
                       THEN Carried(req.stop_price) ELSE NoneV))

\* a stop-limit order with distinct prices that the exchange refused
C12_Witness ==
    /\ InPlaceOrder /\ pc = "done" /\ ExchangeFailed
    /\ req.order_type = "STOP_LIMIT" /\ req.price # req.stop_price
    /\ Len(sent) = 1 /\ ret = "None"

(* ---- C13 ---- *)
\* validate_order_params was called on its own, so that api, log, out and sent
\* hold the effects of the validation and nothing else
ValidatedAlone == entry = "direct" /\ pc = "returned"

\* no order placed or cancelled, nothing printed; at most one client call, a
\* ticker request, made only for a stop request that passed the side, type,
\* quantity, limit-price and stop-price presence checks
C13_OnlyTheLookup ==
    /\ sent = <<>>
    /\ out = <<>>
    /\ Len(api) <= 1
    /\ Len(api) = result.lookups
    /\ \A i \in 1..Len(api) : api[i] = TickerCall(ticker)
    /\ (api # <<>> => (StopType /\ PassesPresenceChecks))
    /\ (ReqType \in {"MARKET", "LIMIT"} => api = <<>>)
    /\ (Invalid /\ result.msg \in {MsgSide, MsgType, MsgQuantity,
                                   MsgPrice(req.order_type),
                                   MsgStopPrice(req.order_type)} => api = <<>>)

\* C13 as stated: validate_order_params has no side effects: it places and
\* cancels nothing and writes no log entry, and its only interaction with the
\* outside is the price lookup, made at most once and only for stop requests
\* that passed the presence checks.
C13_NoSideEffects ==
    ValidatedAlone => (C13_OnlyTheLookup /\ log = <<>>)

\* C13 amended: as stated, except that a validation whose price lookup fails
\* leaves one log entry, the warning get_current_price writes; no other log
\* entry is written.
C13_NoSideEffectsButLookupWarning ==
    ValidatedAlone =>
        /\ C13_OnlyTheLookup
        /\ log = (IF api # <<>> /\ NoPriceReturned
                  THEN <<LogEntry("WARNING", "Could not fetch current price")>>
                  ELSE <<>>)

\* a stop order validated while the lookup fails: one lookup, one warning
C13_Witness ==
    /\ ValidatedAlone /\ StopType /\ PassesPresenceChecks /\ NoPriceReturned
    /\ Len(api) = 1 /\ Len(log) = 1 /\ Valid

(* ---- C14 ---- *)
\* cancel_all_orders was invoked by this handler
CancelAllInvoked ==
    \E i \in 1..Len(api) : api[i].method = "futures_cancel_all_open_orders"

\* an order or all orders were cancelled by this handler
SomethingCancelled ==
    \E i \in 1..Len(api) :
        api[i].method \in {"futures_cancel_all_open_orders", "futures_cancel_order"}

\* the answers that are 'yes' when compared case-insensitively
YesAnswers == {"yes", "yeS", "yEs", "yES", "Yes", "YeS", "YEs", "YES"}

\* C14: in the interactive menu cancel_all_orders is invoked only when the user
\* chose option 9 and answered the confirmation with 'yes' (case-insensitive);
\* any other answer cancels nothing and returns to the menu, and no other menu
\* option invokes cancel_all_orders.
C14_CancelAllNeedsYes ==
    entry = "menu" =>
        /\ (CancelAllInvoked => (choice = "9" /\ confirm \in YesAnswers))
        /\ (choice # "9" => ~CancelAllInvoked)
        /\ ((choice = "9" /\ confirm \notin YesAnswers) =>
               /\ ~SomethingCancelled
               /\ api = <<>>
               /\ out = <<"Cancelled.">>
               /\ pc = "done")

\* option 9 answered "YES": all orders are cancelled
C14_Witness ==
    /\ entry = "menu" /\ choice = "9" /\ confirm = "YES"
    /\ CancelAllInvoked /\ pc = "done"

=============================================================================
